---- MODULE Spec2Model ----
(***************************************************************************)
(* A model of the Falcon IL core: the calling-convention tables and their  *)
(* queries (lib/analysis/calling_convention.rs), the Instruction record    *)
(* and its rendering (lib/il/instruction.rs), the terminals' convenience   *)
(* constructors (lib/il/mod.rs), and the Block and ControlFlowGraph layer  *)
(* as the specification describes it.                                      *)
(*                                                                         *)
(* Text is modelled as a sequence of one-character strings, so that        *)
(* prefixes and suffixes of a rendering can be compared.                   *)
(***************************************************************************)
EXTENDS Integers, Sequences, FiniteSets, TLC

VARIABLES
    typ,        \* the CallingConventionType last given to CallingConvention::new
    cc,         \* the CallingConvention value built from it
    ret_p,      \* the last is_preserved call: its argument and result
    ret_t,      \* the last is_trashed call: its argument and result
    ret_arg,    \* the last argument_type call: its argument and result
    instr,      \* an Instruction
    out,        \* the text fmt::Display produced for instr
    vw,         \* what variable_written returned for instr
    copy,       \* what clone_new_index returned for instr
    made,       \* how instr was created and what its setters were last given
    block,      \* a Block
    calls,      \* the factory calls made on block, in order
    cfg,        \* a ControlFlowGraph
    err,        \* the Result of the last ControlFlowGraph call
    last        \* the last ControlFlowGraph call and its arguments

ccVars    == <<typ, cc, ret_p, ret_t, ret_arg>>
instrVars == <<instr, out, vw, copy, made>>
blockVars == <<block, calls>>
cfgVars   == <<cfg, err, last>>
vars      == <<typ, cc, ret_p, ret_t, ret_arg, instr, out, vw, copy, made,
               block, calls, cfg, err, last>>

None == [tag |-> "None"]
Some(v) == [tag |-> "Some", value |-> v]

(***************************************************************************)
(* il/mod.rs: the convenience constructors of the terminals.               *)
(***************************************************************************)
scalar(name, bits) == [kind |-> "Scalar", name |-> name, bits |-> bits]

array(name, size) == [kind |-> "Array", name |-> name, size |-> size]

const_(value, bits) == [kind |-> "Constant", value |-> value, bits |-> bits]

expr_const(value, bits) == [tag |-> "Constant", term |-> const_(value, bits)]

expr_scalar(name, bits) == [tag |-> "Scalar", term |-> scalar(name, bits)]

(***************************************************************************)
(* analysis/calling_convention.rs                                          *)
(***************************************************************************)
CallingConventionType == {"MipsSystemV", "MipselSystemV", "Cdecl"}

Register(s) == [tag |-> "Register", scalar |-> s]

Stack(offset) == [tag |-> "Stack", offset |-> offset]

\* A slip in the MIPS table: $a0 and $a1 in the wrong order.
MipsArgumentRegisters_swapped ==
    << scalar("$a1", 32), scalar("$a0", 32),
       scalar("$a2", 32), scalar("$a3", 32) >>

MipsArgumentRegisters ==
    << scalar("$a0", 32), scalar("$a1", 32),
       scalar("$a2", 32), scalar("$a3", 32) >>

MipsPreservedRegisters ==
    { scalar("$s0", 32), scalar("$s1", 32), scalar("$s2", 32),
      scalar("$s3", 32), scalar("$s4", 32), scalar("$s5", 32),
      scalar("$s6", 32), scalar("$s7", 32), scalar("$s8", 32),
      scalar("$sp", 32), scalar("$ra", 32) }

MipsTrashedRegisters ==
    { scalar("$at", 32), scalar("$v0", 32), scalar("$v1", 32),
      scalar("$a0", 32), scalar("$a1", 32), scalar("$a2", 32),
      scalar("$a3", 32), scalar("$t0", 32), scalar("$t1", 32),
      scalar("$t2", 32), scalar("$t3", 32), scalar("$t4", 32),
      scalar("$t5", 32), scalar("$t6", 32), scalar("$t7", 32),
      scalar("$t8", 32), scalar("$t9", 32) }

CdeclPreservedRegisters ==
    { scalar("ebx", 32), scalar("edi", 32), scalar("esi", 32),
      scalar("ebp", 32), scalar("esp", 32) }

\* A slip in the Cdecl table: ebx entered as trashed as well.
CdeclTrashedRegisters_ebx ==
    { scalar("eax", 32), scalar("ecx", 32), scalar("edx", 32),
      scalar("ebx", 32) }

CdeclTrashedRegisters ==
    { scalar("eax", 32), scalar("ecx", 32), scalar("edx", 32) }

\* A slip in the tables: the MIPS convention given Cdecl's stack offset and
\* Cdecl given none.
CallingConvention_new_offsets(t) ==
    IF t \in {"MipsSystemV", "MipselSystemV"}
    THEN [ argument_registers    |-> MipsArgumentRegisters,
           preserved_registers   |-> MipsPreservedRegisters,
           trashed_registers     |-> MipsTrashedRegisters,
           stack_argument_offset |-> 4,
           stack_argument_length |-> 4,
           return_address_type   |-> Register(scalar("$ra", 32)),
           return_register       |-> scalar("$v0", 32) ]
    ELSE [ argument_registers    |-> << >>,
           preserved_registers   |-> CdeclPreservedRegisters,
           trashed_registers     |-> CdeclTrashedRegisters,
           stack_argument_offset |-> 0,
           stack_argument_length |-> 4,
           return_address_type   |-> Register(scalar("esp", 32)),
           return_register       |-> scalar("eax", 32) ]

CallingConvention_new(t) ==
    IF t \in {"MipsSystemV", "MipselSystemV"}
    THEN [ argument_registers    |-> MipsArgumentRegisters,
           preserved_registers   |-> MipsPreservedRegisters,
           trashed_registers     |-> MipsTrashedRegisters,
           stack_argument_offset |-> 0,
           stack_argument_length |-> 4,
           return_address_type   |-> Register(scalar("$ra", 32)),
           return_register       |-> scalar("$v0", 32) ]
    ELSE [ argument_registers    |-> << >>,
           preserved_registers   |-> CdeclPreservedRegisters,
           trashed_registers     |-> CdeclTrashedRegisters,
           stack_argument_offset |-> 4,
           stack_argument_length |-> 4,
           return_address_type   |-> Register(scalar("esp", 32)),
           return_register       |-> scalar("eax", 32) ]

\* An off-by-one in the comparison: > for >=.
argument_type_gt(c, argument_number) ==
    IF argument_number > Len(c.argument_registers)
    THEN LET n == argument_number - Len(c.argument_registers)
             offset == c.stack_argument_offset + (c.stack_argument_length * n)
         IN  Stack(offset)
    ELSE IF argument_number + 1 \in DOMAIN c.argument_registers
         THEN Register(c.argument_registers[argument_number + 1])
         ELSE [tag |-> "Panic"]

\* Vec indices start at 0, sequence indices at 1.
argument_type(c, argument_number) ==
    IF argument_number >= Len(c.argument_registers)
    THEN LET n == argument_number - Len(c.argument_registers)
             offset == c.stack_argument_offset + (c.stack_argument_length * n)
         IN  Stack(offset)
    ELSE Register(c.argument_registers[argument_number + 1])

is_preserved(c, s) ==
    IF s \in c.preserved_registers THEN "True"
    ELSE IF s \in c.trashed_registers THEN "False"
    ELSE "Unknown"

\* A two-valued is_trashed: whatever is not trashed is reported False.
is_trashed_two_valued(c, s) ==
    IF s \in c.trashed_registers THEN "True" ELSE "False"

is_trashed(c, s) ==
    IF s \in c.trashed_registers THEN "True"
    ELSE IF s \in c.preserved_registers THEN "False"
    ELSE "Unknown"

\* The argument numbers asked for are 0 .. MaxArg.
MaxArg == 6

\* The scalars asked about: every register either table names, and some
\* neither names.
QueryScalars ==
    MipsPreservedRegisters \cup MipsTrashedRegisters
    \cup CdeclPreservedRegisters \cup CdeclTrashedRegisters
    \cup { scalar("$gp", 32), scalar("$zero", 32), scalar("$k0", 32),
           scalar("eip", 32), scalar("$s3", 16), scalar("eax", 16) }

NoCall == [tag |-> "NoCall"]

New(t) ==
    /\ typ' = t
    /\ cc' = CallingConvention_new(t)
    /\ ret_p' = NoCall
    /\ ret_t' = NoCall
    /\ ret_arg' = NoCall
    /\ UNCHANGED <<instrVars, blockVars, cfgVars>>

IsPreserved(s) ==
    /\ cc # None
    /\ ret_p' = [tag |-> "Call", arg |-> s, val |-> is_preserved(cc, s)]
    /\ UNCHANGED <<typ, cc, ret_t, ret_arg, instrVars, blockVars, cfgVars>>

IsTrashed(s) ==
    /\ cc # None
    /\ ret_t' = [tag |-> "Call", arg |-> s, val |-> is_trashed(cc, s)]
    /\ UNCHANGED <<typ, cc, ret_p, ret_arg, instrVars, blockVars, cfgVars>>

ArgumentType(n) ==
    /\ cc # None
    /\ ret_arg' = [tag |-> "Call", arg |-> n, val |-> argument_type(cc, n)]
    /\ UNCHANGED <<typ, cc, ret_p, ret_t, instrVars, blockVars, cfgVars>>

(***************************************************************************)
(* il/operation.rs is not among the sources: the five variants and their   *)
(* queries are taken from the specification (sections 3 and 4.2).  The     *)
(* operation's own text is kept as one opaque token per variant.           *)
(***************************************************************************)
Operation_assign(dst, src) == [tag |-> "Assign", dst |-> dst, src |-> src]

Operation_store(dst, index, src) ==
    [tag |-> "Store", dst |-> dst, index |-> index, src |-> src]

Operation_load(dst, index, src) ==
    [tag |-> "Load", dst |-> dst, index |-> index, src |-> src]

Operation_brc(target, condition) ==
    [tag |-> "Brc", target |-> target, condition |-> condition]

Operation_raise(expr) == [tag |-> "Raise", expr |-> expr]

Operation_variable_written(op) ==
    CASE op.tag = "Assign" -> Some(op.dst)
      [] op.tag = "Store"  -> Some(op.dst)
      [] op.tag = "Load"   -> Some(op.dst)
      [] op.tag = "Brc"    -> None
      [] op.tag = "Raise"  -> None

Operation_fmt(op) == << "<" \o op.tag \o ">" >>

(***************************************************************************)
(* il/instruction.rs                                                       *)
(***************************************************************************)
\* A constructor that drops the index it is given.
Instruction_new_index0(index, operation) ==
    [ operation |-> operation,
      index     |-> 0,
      comment   |-> None,
      address   |-> None ]

Instruction_new(index, operation) ==
    [ operation |-> operation,
      index     |-> index,
      comment   |-> None,
      address   |-> None ]

Instruction_assign(index, dst, src) ==
    Instruction_new(index, Operation_assign(dst, src))

Instruction_store(instruction_index, dst, dst_index, src) ==
    Instruction_new(instruction_index, Operation_store(dst, dst_index, src))

Instruction_load(instruction_index, dst, src_index, src) ==
    Instruction_new(instruction_index, Operation_load(dst, src_index, src))

Instruction_brc(index, target, condition) ==
    Instruction_new(index, Operation_brc(target, condition))

Instruction_raise(index, expr) ==
    Instruction_new(index, Operation_raise(expr))

is_assign(i) == i.operation.tag = "Assign"

\* A predicate copied from its neighbour with the variant left unchanged.
is_store_matching_load(i) == i.operation.tag = "Load"

is_store(i) == i.operation.tag = "Store"

is_load(i) == i.operation.tag = "Load"

is_brc(i) == i.operation.tag = "Brc"

is_raise(i) == i.operation.tag = "Raise"

set_comment(i, comment) == [i EXCEPT !.comment = comment]

\* A setter that writes the whole location anew and loses the comment.
set_address_losing_comment(i, address) ==
    [i EXCEPT !.address = address, !.comment = None]

set_address(i, address) == [i EXCEPT !.address = address]

\* A clone that keeps the index of the original.
clone_new_index_same_index(i, index) ==
    [ operation |-> i.operation,
      index     |-> i.index,
      comment   |-> i.comment,
      address   |-> i.address ]

clone_new_index(i, index) ==
    [ operation |-> i.operation,
      index     |-> index,
      comment   |-> i.comment,
      address   |-> i.address ]

\* A convenience function that forgets to ask the operation.
variable_written_none(i) == None

variable_written(i) == Operation_variable_written(i.operation)

\* The digits of {:X}.
UpperHexDigit(d) ==
    << "0", "1", "2", "3", "4", "5", "6", "7",
       "8", "9", "A", "B", "C", "D", "E", "F" >>[d + 1]

RECURSIVE UpperHex(_)
\* {:X}: the hexadecimal digits of n, the most significant first, no prefix.
UpperHex(n) ==
    IF n < 16 THEN << UpperHexDigit(n) >>
    ELSE UpperHex(n \div 16) \o << UpperHexDigit(n % 16) >>

\* A {:X} where {:02X} was meant: no filling.
UpperHex02_unpadded(n) == UpperHex(n)

\* {:02X}: the same, filled with zeros on the left to a width of two.
UpperHex02(n) ==
    LET digits == UpperHex(n)
    IN  IF Len(digits) < 2 THEN << "0" >> \o digits ELSE digits

\* A rendering whose comment is glued to the operation without " // ".
Instruction_fmt_glued(i) ==
    LET prefix ==
            IF i.address.tag = "Some"
            THEN UpperHex(i.address.value) \o << " " >> \o UpperHex02(i.index)
                 \o << " " >> \o Operation_fmt(i.operation)
            ELSE UpperHex02(i.index) \o << " " >> \o Operation_fmt(i.operation)
    IN  IF i.comment.tag = "Some"
        THEN prefix \o << " " >> \o i.comment.value
        ELSE prefix

Instruction_fmt(i) ==
    LET prefix ==
            IF i.address.tag = "Some"
            THEN UpperHex(i.address.value) \o << " " >> \o UpperHex02(i.index)
                 \o << " " >> \o Operation_fmt(i.operation)
            ELSE UpperHex02(i.index) \o << " " >> \o Operation_fmt(i.operation)
    IN  IF i.comment.tag = "Some"
        THEN prefix \o << " ", "/", "/", " " >> \o i.comment.value
        ELSE prefix

\* The operands, indices, comments and addresses instructions are built from.
Scalars == { scalar("x", 32), scalar("y", 8) }

Arrays == { array("mem", 4096) }

Expressions == { expr_const(1, 1) }

Indices == { 0, 3, 255, 427 }

Addresses == { 0, 171, 4198400 }

Comments == { << >>, << "e", "n", "t", "r", "y" >> }

OptComments == { None } \cup { Some(c) : c \in Comments }

OptAddresses == { None } \cup { Some(a) : a \in Addresses }

\* The constructor called and the index given to it; no setter called yet.
Made(ctor, index) ==
    [ ctor |-> ctor, index |-> index, comment |-> NoCall, address |-> NoCall ]

\* A new or changed instruction: what was asked of the old one is forgotten.
Forget == out' = NoCall /\ vw' = NoCall /\ copy' = NoCall

InstrAssign ==
    \E index \in Indices, dst \in Scalars, src \in Expressions :
        /\ instr' = Instruction_assign(index, dst, src)
        /\ made' = Made("assign", index)
        /\ Forget
        /\ UNCHANGED <<ccVars, blockVars, cfgVars>>

InstrStore ==
    \E index \in Indices, dst \in Arrays, dst_index \in Expressions,
       src \in Expressions :
        /\ instr' = Instruction_store(index, dst, dst_index, src)
        /\ made' = Made("store", index)
        /\ Forget
        /\ UNCHANGED <<ccVars, blockVars, cfgVars>>

InstrLoad ==
    \E index \in Indices, dst \in Scalars, src_index \in Expressions,
       src \in Arrays :
        /\ instr' = Instruction_load(index, dst, src_index, src)
        /\ made' = Made("load", index)
        /\ Forget
        /\ UNCHANGED <<ccVars, blockVars, cfgVars>>

InstrBrc ==
    \E index \in Indices, target \in Expressions, condition \in Expressions :
        /\ instr' = Instruction_brc(index, target, condition)
        /\ made' = Made("brc", index)
        /\ Forget
        /\ UNCHANGED <<ccVars, blockVars, cfgVars>>

InstrRaise ==
    \E index \in Indices, expr \in Expressions :
        /\ instr' = Instruction_raise(index, expr)
        /\ made' = Made("raise", index)
        /\ Forget
        /\ UNCHANGED <<ccVars, blockVars, cfgVars>>

SetComment ==
    /\ instr # None
    /\ \E c \in OptComments :
           /\ instr' = set_comment(instr, c)
           /\ made' = [ made EXCEPT !.comment = [tag |-> "Call", val |-> c] ]
    /\ Forget
    /\ UNCHANGED <<ccVars, blockVars, cfgVars>>

SetAddress ==
    /\ instr # None
    /\ \E a \in OptAddresses :
           /\ instr' = set_address(instr, a)
           /\ made' = [ made EXCEPT !.address = [tag |-> "Call", val |-> a] ]
    /\ Forget
    /\ UNCHANGED <<ccVars, blockVars, cfgVars>>

Display ==
    /\ instr # None
    /\ out' = [tag |-> "Call", val |-> Instruction_fmt(instr)]
    /\ UNCHANGED <<instr, vw, copy, made, ccVars, blockVars, cfgVars>>

VariableWritten ==
    /\ instr # None
    /\ vw' = [tag |-> "Call", val |-> variable_written(instr)]
    /\ UNCHANGED <<instr, out, copy, made, ccVars, blockVars, cfgVars>>

\* The copy is an instruction of its own: fresh until a setter is called on it.
CloneNewIndex ==
    /\ instr # None
    /\ \E k \in Indices :
           copy' = [ tag |-> "Call", arg |-> k,
                     val |-> clone_new_index(instr, k), fresh |-> TRUE ]
    /\ UNCHANGED <<instr, out, vw, made, ccVars, blockVars, cfgVars>>

CopySetComment ==
    /\ copy.tag = "Call"
    /\ \E c \in OptComments :
           copy' = [ copy EXCEPT !.val = set_comment(@, c), !.fresh = FALSE ]
    /\ UNCHANGED <<instr, out, vw, made, ccVars, blockVars, cfgVars>>

CopySetAddress ==
    /\ copy.tag = "Call"
    /\ \E a \in OptAddresses :
           copy' = [ copy EXCEPT !.val = set_address(@, a), !.fresh = FALSE ]
    /\ UNCHANGED <<instr, out, vw, made, ccVars, blockVars, cfgVars>>

(***************************************************************************)
(* il/block.rs is not among the sources: a block is modelled from the      *)
(* specification (sections 3, 4.4 and 5): an index, the instructions in    *)
(* insertion order, and the next instruction index to allocate.            *)
(***************************************************************************)
Block_new(index) ==
    [ index |-> index, instructions |-> << >>, next_instruction_index |-> 0 ]

Block_push(b, instruction) ==
    [ b EXCEPT !.instructions = Append(@, instruction),
               !.next_instruction_index = @ + 1 ]

Block_assign(b, dst, src) ==
    Block_push(b, Instruction_assign(b.next_instruction_index, dst, src))

Block_store(b, dst, dst_index, src) ==
    Block_push(b, Instruction_store(b.next_instruction_index, dst, dst_index, src))

Block_load(b, dst, src_index, src) ==
    Block_push(b, Instruction_load(b.next_instruction_index, dst, src_index, src))

Block_brc(b, target, condition) ==
    Block_push(b, Instruction_brc(b.next_instruction_index, target, condition))

Block_raise(b, expr) ==
    Block_push(b, Instruction_raise(b.next_instruction_index, expr))

\* A block holds at most MaxInstructions instructions.
MaxInstructions == 4

BlockAssign ==
    /\ Len(block.instructions) < MaxInstructions
    /\ \E dst \in Scalars, src \in Expressions :
           /\ block' = Block_assign(block, dst, src)
           /\ calls' = Append(calls, Operation_assign(dst, src))
    /\ UNCHANGED <<ccVars, instrVars, cfgVars>>

BlockStore ==
    /\ Len(block.instructions) < MaxInstructions
    /\ \E dst \in Arrays, dst_index \in Expressions, src \in Expressions :
           /\ block' = Block_store(block, dst, dst_index, src)
           /\ calls' = Append(calls, Operation_store(dst, dst_index, src))
    /\ UNCHANGED <<ccVars, instrVars, cfgVars>>

BlockLoad ==
    /\ Len(block.instructions) < MaxInstructions
    /\ \E dst \in Scalars, src_index \in Expressions, src \in Arrays :
           /\ block' = Block_load(block, dst, src_index, src)
           /\ calls' = Append(calls, Operation_load(dst, src_index, src))
    /\ UNCHANGED <<ccVars, instrVars, cfgVars>>

BlockBrc ==
    /\ Len(block.instructions) < MaxInstructions
    /\ \E target \in Expressions, condition \in Expressions :
           /\ block' = Block_brc(block, target, condition)
           /\ calls' = Append(calls, Operation_brc(target, condition))
    /\ UNCHANGED <<ccVars, instrVars, cfgVars>>

BlockRaise ==
    /\ Len(block.instructions) < MaxInstructions
    /\ \E expr \in Expressions :
           /\ block' = Block_raise(block, expr)
           /\ calls' = Append(calls, Operation_raise(expr))
    /\ UNCHANGED <<ccVars, instrVars, cfgVars>>

(***************************************************************************)
(* il/control_flow_graph.rs and il/edge.rs are not among the sources: the  *)
(* graph is modelled from the specification (sections 3, 4.5, 4.6, 5, 7    *)
(* and 8).  The blocks are kept as a list, in ascending index order, so    *)
(* that two blocks with one index are a state the model can tell apart.    *)
(* A call returns the graph it leaves and its Result.                      *)
(***************************************************************************)
ControlFlowGraph_new ==
    [ blocks |-> << >>, edges |-> {}, entry |-> None, exit |-> None,
      next_index |-> 0 ]

Edge_new(head, tail, condition) ==
    [ head |-> head, tail |-> tail, condition |-> condition ]

\* The width of an expression that is a terminal.
Expression_bits(e) == e.term.bits

BlockIndices(g) == { g.blocks[i].index : i \in DOMAIN g.blocks }

Ok(g) == [ g |-> g, err |-> "Ok" ]

Failed(g, kind) == [ g |-> g, err |-> kind ]

new_block(g) ==
    Ok([ g EXCEPT !.blocks = Append(@, Block_new(g.next_index)),
                  !.next_index = @ + 1 ])

\* An edge insertion that does not look for the tail.
unconditional_edge_unchecked_tail(g, head, tail) ==
    IF head \notin BlockIndices(g)
    THEN Failed(g, "EdgeTargetMissing")
    ELSE Ok([ g EXCEPT !.edges = @ \cup { Edge_new(head, tail, None) } ])

unconditional_edge(g, head, tail) ==
    IF head \notin BlockIndices(g) \/ tail \notin BlockIndices(g)
    THEN Failed(g, "EdgeTargetMissing")
    ELSE Ok([ g EXCEPT !.edges = @ \cup { Edge_new(head, tail, None) } ])

conditional_edge(g, head, tail, condition) ==
    IF head \notin BlockIndices(g) \/ tail \notin BlockIndices(g)
    THEN Failed(g, "EdgeTargetMissing")
    ELSE IF Expression_bits(condition) # 1
    THEN Failed(g, "Sort")
    ELSE Ok([ g EXCEPT !.edges = @ \cup { Edge_new(head, tail, Some(condition)) } ])

set_entry(g, b) == Ok([ g EXCEPT !.entry = Some(b) ])

set_exit(g, b) == Ok([ g EXCEPT !.exit = Some(b) ])

\* The fresh index given to the block of other that has index b: the blocks
\* of other are taken in order and numbered from g.next_index on.
Rewritten(g, other, b) ==
    LET i == CHOOSE k \in DOMAIN other.blocks : other.blocks[k].index = b
    IN  g.next_index + i - 1

\* The graph after absorbing the blocks and edges of other.
Absorb(g, other) ==
    [ g EXCEPT
        !.blocks = @ \o [ i \in DOMAIN other.blocks |->
                            [ other.blocks[i] EXCEPT !.index = g.next_index + i - 1 ] ],
        !.edges = @ \cup { Edge_new(Rewritten(g, other, e.head),
                                    Rewritten(g, other, e.tail),
                                    e.condition) : e \in other.edges },
        !.next_index = @ + Len(other.blocks) ]

append(g, other) == Ok(Absorb(g, other))

\* A composition that leaves the exit of the result where other had it,
\* without rewriting it.
append_with_edge_exit_not_rewritten(g, other, condition) ==
    IF other.entry = None \/ other.exit = None
    THEN Failed(g, "GraphMissingTerminal")
    ELSE IF Len(g.blocks) = 0
    THEN Ok([ Absorb(g, other) EXCEPT
                !.entry = Some(Rewritten(g, other, other.entry.value)),
                !.exit = Some(other.exit.value) ])
    ELSE IF g.exit = None
    THEN Failed(g, "GraphMissingTerminal")
    ELSE Ok([ Absorb(g, other) EXCEPT
                !.edges = @ \cup { Edge_new(g.exit.value,
                                            Rewritten(g, other, other.entry.value),
                                            condition) },
                !.exit = Some(other.exit.value) ])

\* Section 8, property 5: composing onto the empty graph inserts other and
\* takes its rewritten terminals; otherwise the edge runs from the exit of g.
append_with_edge(g, other, condition) ==
    IF other.entry = None \/ other.exit = None
    THEN Failed(g, "GraphMissingTerminal")
    ELSE IF Len(g.blocks) = 0
    THEN Ok([ Absorb(g, other) EXCEPT
                !.entry = Some(Rewritten(g, other, other.entry.value)),
                !.exit = Some(Rewritten(g, other, other.exit.value)) ])
    ELSE IF g.exit = None
    THEN Failed(g, "GraphMissingTerminal")
    ELSE Ok([ Absorb(g, other) EXCEPT
                !.edges = @ \cup { Edge_new(g.exit.value,
                                            Rewritten(g, other, other.entry.value),
                                            condition) },
                !.exit = Some(Rewritten(g, other, other.exit.value)) ])

\* A graph holds at most MaxBlocks blocks.
MaxBlocks == 4

\* The conditions given to conditional_edge: one of width 1, one of width 32.
Conditions == { expr_scalar("c", 1), expr_scalar("x", 32) }

\* The endpoints given to the edge insertions: an edge and a loop, whose
\* blocks are absent from a graph of fewer than two blocks, and two edges
\* one end of which no graph holds.
EdgeEnds == { <<0, 1>>, <<1, 1>>, <<0, MaxBlocks>>, <<MaxBlocks, 0>> }

\* The blocks given to set_entry and set_exit.
Terminals == { 0, 1 }

\* The graphs that are appended, each built by the calls above: two blocks,
\* entry to exit, with an unconditional edge; two blocks with a conditional
\* edge and a loop, the exit first; and two blocks with no exit set.
OtherTwoBlocks ==
    LET two == new_block(new_block(ControlFlowGraph_new).g).g
    IN  [ two EXCEPT !.blocks[2] = Block_raise(@, expr_const(1, 1)) ]

OtherTwo ==
    set_exit(set_entry(unconditional_edge(OtherTwoBlocks, 0, 1).g, 0).g, 1).g

OtherLoop ==
    set_exit(set_entry(
        unconditional_edge(
            conditional_edge(OtherTwoBlocks, 1, 0, expr_scalar("c", 1)).g,
            0, 0).g, 1).g, 0).g

OtherNoExit ==
    set_entry(unconditional_edge(OtherTwoBlocks, 0, 1).g, 0).g

OtherGraphs == { OtherTwo, OtherLoop, OtherNoExit }

NewBlock ==
    /\ Len(cfg.blocks) < MaxBlocks
    /\ cfg' = new_block(cfg).g
    /\ err' = new_block(cfg).err
    /\ last' = [ op |-> "new_block" ]
    /\ UNCHANGED <<ccVars, instrVars, blockVars>>

UnconditionalEdge ==
    /\ \E ends \in EdgeEnds :
           LET r == unconditional_edge(cfg, ends[1], ends[2])
           IN  /\ cfg' = r.g
               /\ err' = r.err
               /\ last' = [ op |-> "unconditional_edge",
                            absent |-> ~({ends[1], ends[2]} \subseteq BlockIndices(cfg)) ]
    /\ UNCHANGED <<ccVars, instrVars, blockVars>>

ConditionalEdge ==
    /\ \E ends \in EdgeEnds, condition \in Conditions :
           LET r == conditional_edge(cfg, ends[1], ends[2], condition)
           IN  /\ cfg' = r.g
               /\ err' = r.err
               /\ last' = [ op |-> "conditional_edge",
                            absent |-> ~({ends[1], ends[2]} \subseteq BlockIndices(cfg)) ]
    /\ UNCHANGED <<ccVars, instrVars, blockVars>>

\* Section 3: entry and exit, when set, refer to existing blocks.
SetEntry ==
    /\ \E b \in Terminals \cap BlockIndices(cfg) :
           /\ cfg' = set_entry(cfg, b).g
           /\ err' = set_entry(cfg, b).err
    /\ last' = [ op |-> "set_entry" ]
    /\ UNCHANGED <<ccVars, instrVars, blockVars>>

SetExit ==
    /\ \E b \in Terminals \cap BlockIndices(cfg) :
           /\ cfg' = set_exit(cfg, b).g
           /\ err' = set_exit(cfg, b).err
    /\ last' = [ op |-> "set_exit" ]
    /\ UNCHANGED <<ccVars, instrVars, blockVars>>

AppendGraph ==
    /\ \E other \in OtherGraphs :
           /\ Len(cfg.blocks) + Len(other.blocks) <= MaxBlocks
           /\ cfg' = append(cfg, other).g
           /\ err' = append(cfg, other).err
           /\ last' = [ op |-> "append" ]
    /\ UNCHANGED <<ccVars, instrVars, blockVars>>

\* The condition of the added edge: none, or an expression of width 1
\* (section 4.5).
AppendWithEdge ==
    /\ \E other \in OtherGraphs, condition \in { None, Some(expr_scalar("c", 1)) } :
           /\ Len(cfg.blocks) + Len(other.blocks) <= MaxBlocks
           /\ LET r == append_with_edge(cfg, other, condition)
              IN  /\ cfg' = r.g
                  /\ err' = r.err
                  /\ last' = [ op |-> "append_with_edge", pre |-> cfg,
                               other |-> other, condition |-> condition ]
    /\ UNCHANGED <<ccVars, instrVars, blockVars>>

(***************************************************************************)
(* The calling conventions: a convention is built, then asked.             *)
(***************************************************************************)
InitCC ==
    /\ typ \in CallingConventionType
    /\ cc = CallingConvention_new(typ)
    /\ ret_p = NoCall
    /\ ret_t = NoCall
    /\ ret_arg = NoCall
    /\ instr = None /\ out = NoCall /\ vw = NoCall /\ copy = NoCall
    /\ made = NoCall
    /\ block = None /\ calls = << >>
    /\ cfg = None /\ err = NoCall /\ last = NoCall

NextCC ==
    \/ \E t \in CallingConventionType : New(t)
    \/ \E s \in QueryScalars : IsPreserved(s)
    \/ \E s \in QueryScalars : IsTrashed(s)
    \/ \E n \in 0..MaxArg : ArgumentType(n)

SpecCC == InitCC /\ [][NextCC]_vars

(***************************************************************************)
(* One instruction: created by a constructor, then changed and asked.      *)
(***************************************************************************)
InitInstr ==
    /\ \E index \in Indices, expr \in Expressions :
           /\ instr = Instruction_raise(index, expr)
           /\ made = Made("raise", index)
    /\ out = NoCall /\ vw = NoCall /\ copy = NoCall
    /\ typ = "Cdecl" /\ cc = None
    /\ ret_p = NoCall /\ ret_t = NoCall /\ ret_arg = NoCall
    /\ block = None /\ calls = << >>
    /\ cfg = None /\ err = NoCall /\ last = NoCall

NextInstr ==
    \/ InstrAssign
    \/ InstrStore
    \/ InstrLoad
    \/ InstrBrc
    \/ InstrRaise
    \/ SetComment
    \/ SetAddress
    \/ Display
    \/ VariableWritten
    \/ CloneNewIndex
    \/ CopySetComment
    \/ CopySetAddress

SpecInstr == InitInstr /\ [][NextInstr]_vars

(***************************************************************************)
(* One block, filled through its factories.                                *)
(***************************************************************************)
InitBlock ==
    /\ block \in { Block_new(0), Block_new(1) }
    /\ calls = << >>
    /\ typ = "Cdecl" /\ cc = None
    /\ ret_p = NoCall /\ ret_t = NoCall /\ ret_arg = NoCall
    /\ instr = None /\ out = NoCall /\ vw = NoCall /\ copy = NoCall
    /\ made = NoCall
    /\ cfg = None /\ err = NoCall /\ last = NoCall

NextBlock ==
    \/ BlockAssign
    \/ BlockStore
    \/ BlockLoad
    \/ BlockBrc
    \/ BlockRaise

SpecBlock == InitBlock /\ [][NextBlock]_vars

(***************************************************************************)
(* One control-flow graph, built and composed.                             *)
(***************************************************************************)
InitCfg ==
    /\ cfg = ControlFlowGraph_new
    /\ err = NoCall
    /\ last = [ op |-> "new" ]
    /\ typ = "Cdecl" /\ cc = None
    /\ ret_p = NoCall /\ ret_t = NoCall /\ ret_arg = NoCall
    /\ instr = None /\ out = NoCall /\ vw = NoCall /\ copy = NoCall
    /\ made = NoCall
    /\ block = None /\ calls = << >>

NextCfg ==
    \/ NewBlock
    \/ UnconditionalEdge
    \/ ConditionalEdge
    \/ SetEntry
    \/ SetExit
    \/ AppendGraph
    \/ AppendWithEdge

SpecCfg == InitCfg /\ [][NextCfg]_vars

(***************************************************************************)
(* Properties of the calling conventions (under SpecCC).                   *)
(***************************************************************************)

\* C1: is_preserved and is_trashed agree with the two sets: a scalar of the
\* preserved set is preserved (True) and not trashed (False), a scalar of the
\* trashed set is trashed (True) and not preserved (False), and a scalar of
\* neither set is Unknown to both queries.
C1_PreservedTrashedConsistent ==
    /\ ret_p.tag = "Call" =>
          LET s == ret_p.arg
          IN  /\ s \in cc.preserved_registers => ret_p.val = "True"
              /\ s \in cc.trashed_registers => ret_p.val = "False"
              /\ s \notin cc.preserved_registers \cup cc.trashed_registers
                     => ret_p.val = "Unknown"
    /\ ret_t.tag = "Call" =>
          LET s == ret_t.arg
          IN  /\ s \in cc.preserved_registers => ret_t.val = "False"
              /\ s \in cc.trashed_registers => ret_t.val = "True"
              /\ s \notin cc.preserved_registers \cup cc.trashed_registers
                     => ret_t.val = "Unknown"

C1_Witness ==
    /\ ret_p.tag = "Call" /\ ret_t.tag = "Call"
    /\ ret_p.arg = ret_t.arg
    /\ ret_p.arg \notin cc.preserved_registers \cup cc.trashed_registers
    /\ ret_p.val = "Unknown" /\ ret_t.val = "Unknown"

\* C2: argument_type(n) is Register(argument_registers[n]) exactly when
\* n < len(argument_registers), and otherwise
\* Stack(stack_argument_offset + stack_argument_length * (n - len)).
C2_ArgumentType ==
    ret_arg.tag = "Call" =>
        LET n == ret_arg.arg
            regs == cc.argument_registers
        IN  /\ (ret_arg.val.tag = "Register") <=> (n < Len(regs))
            /\ n < Len(regs) => ret_arg.val = Register(regs[n + 1])
            /\ ~(n < Len(regs)) =>
                   ret_arg.val = Stack(cc.stack_argument_offset
                       + cc.stack_argument_length * (n - Len(regs)))

C2_Witness ==
    /\ ret_arg.tag = "Call"
    /\ Len(cc.argument_registers) > 0
    /\ ret_arg.arg = Len(cc.argument_registers)
    /\ ret_arg.val.tag = "Stack"

\* C3: for each of the three kinds the preserved and the trashed set are
\* disjoint, so no scalar is answered True by both is_preserved and is_trashed.
C3_Disjoint ==
    /\ \A t \in CallingConventionType :
           CallingConvention_new(t).preserved_registers
               \cap CallingConvention_new(t).trashed_registers = {}
    /\ cc.preserved_registers \cap cc.trashed_registers = {}
    /\ (ret_p.tag = "Call" /\ ret_t.tag = "Call" /\ ret_p.arg = ret_t.arg)
           => ~(ret_p.val = "True" /\ ret_t.val = "True")

C3_Witness ==
    /\ typ = "Cdecl"
    /\ ret_p.tag = "Call" /\ ret_t.tag = "Call"
    /\ ret_p.arg = scalar("ebx", 32) /\ ret_t.arg = scalar("ebx", 32)
    /\ ret_p.val = "True" /\ ret_t.val = "False"

C5_Cdecl ==
    typ = "Cdecl" =>
        /\ cc.return_register = scalar("eax", 32)
        /\ ret_arg.tag = "Call" =>
              /\ ret_arg.val = Stack(4 + 4 * ret_arg.arg)
              /\ ret_arg.arg = 0 => ret_arg.val = Stack(4)
              /\ ret_arg.arg = 2 => ret_arg.val = Stack(12)
        /\ ret_t.tag = "Call" =>
              /\ ret_t.arg = scalar("eax", 32) => ret_t.val = "True"
              /\ ret_t.arg = scalar("ebx", 32) => ret_t.val = "False"

C5_Witness ==
    /\ typ = "Cdecl"
    /\ ret_arg.tag = "Call" /\ ret_arg.arg = 2 /\ ret_arg.val = Stack(12)
    /\ ret_t.tag = "Call" /\ ret_t.arg = scalar("ebx", 32)
    /\ ret_t.val = "False"

(***************************************************************************)
(* Properties of one instruction (under SpecInstr).                        *)
(***************************************************************************)
IsPrefix(p, s) == Len(p) <= Len(s) /\ SubSeq(s, 1, Len(p)) = p

IsSuffix(p, s) ==
    Len(p) <= Len(s) /\ SubSeq(s, Len(s) - Len(p) + 1, Len(s)) = p

\* C6: the rendering of an instruction is, in order: the address and one
\* space if and only if the address is set; the index; one space; the
\* operation's text; and " // " and the comment if and only if a comment is
\* set.  An assign at index 3 and address 0x401000 starts "401000 03 ", with
\* the comment "entry" it ends " // entry", and with no address it starts
\* "03 ".
C6_Rendering ==
    out.tag = "Call" =>
        LET addressPart ==
                IF instr.address = None THEN << >>
                ELSE UpperHex(instr.address.value) \o << " " >>
            commentPart ==
                IF instr.comment = None THEN << >>
                ELSE << " ", "/", "/", " " >> \o instr.comment.value
        IN  /\ out.val = addressPart \o UpperHex02(instr.index) \o << " " >>
                             \o Operation_fmt(instr.operation) \o commentPart
            /\ (is_assign(instr) /\ instr.index = 3) =>
                  /\ instr.address = Some(4198400) =>
                         IsPrefix(<< "4", "0", "1", "0", "0", "0", " ",
                                     "0", "3", " " >>, out.val)
                  /\ instr.address = None =>
                         IsPrefix(<< "0", "3", " " >>, out.val)
                  /\ instr.comment = Some(<< "e", "n", "t", "r", "y" >>) =>
                         IsSuffix(<< " ", "/", "/", " ",
                                     "e", "n", "t", "r", "y" >>, out.val)
                  /\ instr.comment = None =>
                         IsSuffix(Operation_fmt(instr.operation), out.val)

C6_Witness ==
    /\ out.tag = "Call"
    /\ is_assign(instr) /\ instr.index = 3
    /\ instr.address = Some(4198400)
    /\ instr.comment = Some(<< "e", "n", "t", "r", "y" >>)
    /\ out.val = << "4", "0", "1", "0", "0", "0", " ", "0", "3", " ",
                    "<Assign>", " ", "/", "/", " ", "e", "n", "t", "r", "y" >>

\* C10: variable_written is the destination scalar of an assign, the
\* destination array of a store, the destination scalar of a load and nothing
\* for a brc or a raise; the instruction's answer is its operation's answer.
C10_VariableWritten ==
    vw.tag = "Call" =>
        /\ is_assign(instr) =>
               vw.val = Some(instr.operation.dst) /\ vw.val.value.kind = "Scalar"
        /\ is_store(instr) =>
               vw.val = Some(instr.operation.dst) /\ vw.val.value.kind = "Array"
        /\ is_load(instr) =>
               vw.val = Some(instr.operation.dst) /\ vw.val.value.kind = "Scalar"
        /\ is_brc(instr) => vw.val = None
        /\ is_raise(instr) => vw.val = None
        /\ vw.val = Operation_variable_written(instr.operation)

C10_Witness ==
    /\ vw.tag = "Call"
    /\ is_store(instr)
    /\ vw.val = Some(array("mem", 4096))

(***************************************************************************)
(* Properties of one block (under SpecBlock).                              *)
(***************************************************************************)

\* C9: after any sequence of factory calls on a block its instruction indices
\* are pairwise distinct, each instruction's index is strictly greater than
\* the index of every instruction created before it, and the instructions
\* stand in the order of the calls.
C9_BlockIndices ==
    LET is == block.instructions
    IN  /\ \A i, j \in DOMAIN is : i # j => is[i].index # is[j].index
        /\ \A i, j \in DOMAIN is : i < j => is[i].index < is[j].index
        /\ Len(is) = Len(calls)
        /\ \A i \in DOMAIN is : is[i].operation = calls[i]

C9_Witness ==
    /\ Len(block.instructions) >= 3
    /\ is_assign(block.instructions[1])
    /\ is_raise(block.instructions[2])
    /\ is_store(block.instructions[3])
    /\ block.instructions[1].index < block.instructions[3].index

(***************************************************************************)
(* Properties of one control-flow graph (under SpecCfg).                   *)
(***************************************************************************)

\* The blocks of g with their contents, by index.
BlockAt(g, b) == CHOOSE blk \in { g.blocks[i] : i \in DOMAIN g.blocks } : blk.index = b

\* C7: for graphs g1 and g2 that both have entry and exit set,
\* g1.append_with_edge(g2, condition) succeeds and leaves a graph with
\* |g1.blocks| + |g2.blocks| blocks, whose entry is g1's entry, which holds
\* every block and edge of g2 under fresh block indices, which has one edge
\* more, with the given condition, from g1's former exit to the image of
\* g2.entry, and whose exit is the image of g2.exit.
C7_AppendWithEdge ==
    ( /\ last.op = "append_with_edge"
      /\ last.pre.entry # None /\ last.pre.exit # None
      /\ last.other.entry # None /\ last.other.exit # None )
    =>
    LET g1 == last.pre
        g2 == last.other
        fresh == BlockIndices(cfg) \ BlockIndices(g1)
    IN  /\ err = "Ok"
        /\ Len(cfg.blocks) = Len(g1.blocks) + Len(g2.blocks)
        /\ cfg.entry = g1.entry
        /\ \A b \in BlockIndices(g1) :
               b \in BlockIndices(cfg) /\ BlockAt(cfg, b) = BlockAt(g1, b)
        /\ \E image \in [ BlockIndices(g2) -> fresh ] :
               /\ \A b, c \in BlockIndices(g2) : b # c => image[b] # image[c]
               /\ \A b \in BlockIndices(g2) :
                      BlockAt(cfg, image[b]).instructions
                          = BlockAt(g2, b).instructions
               /\ LET added == Edge_new(g1.exit.value,
                                        image[g2.entry.value], last.condition)
                      absorbed == { Edge_new(image[e.head], image[e.tail],
                                             e.condition) : e \in g2.edges }
                  IN  /\ added \notin g1.edges \cup absorbed
                      /\ cfg.edges = g1.edges \cup absorbed \cup { added }
                      /\ Cardinality(absorbed) = Cardinality(g2.edges)
               /\ cfg.exit = Some(image[g2.exit.value])

\* Section 8, scenario S3: two blocks and two blocks give four, and the
\* unconditional edge runs from the old exit to the image of the entry.
C7_Witness ==
    /\ last.op = "append_with_edge" /\ err = "Ok"
    /\ last.condition = None
    /\ Len(last.pre.blocks) = 2
    /\ last.pre.entry = Some(0) /\ last.pre.exit = Some(1)
    /\ last.other = OtherLoop
    /\ Len(cfg.blocks) = 4
    /\ cfg.entry = Some(0) /\ cfg.exit = Some(2)
    /\ Edge_new(1, 3, None) \in cfg.edges

\* C8: whatever calls were made, failed ones included, the block indices of
\* the graph are pairwise distinct and the head and tail of every edge are
\* blocks of the graph; an edge insertion that names an absent block fails
\* with EdgeTargetMissing and adds no edge.
C8_GraphWellFormed ==
    /\ []( /\ \A i, j \in DOMAIN cfg.blocks :
                  i # j => cfg.blocks[i].index # cfg.blocks[j].index
           /\ \A e \in cfg.edges :
                  e.head \in BlockIndices(cfg) /\ e.tail \in BlockIndices(cfg)
           /\ ( last.op \in { "unconditional_edge", "conditional_edge" }
                /\ last.absent ) => err = "EdgeTargetMissing" )
    /\ [][ ( last'.op \in { "unconditional_edge", "conditional_edge" }
             /\ last'.absent ) => cfg'.edges = cfg.edges ]_vars

C8_Witness ==
    /\ last.op = "conditional_edge" /\ last.absent
    /\ err = "EdgeTargetMissing"
    /\ Len(cfg.blocks) = MaxBlocks
    /\ Cardinality(cfg.edges) >= 3

(***************************************************************************)
(* Further properties of one instruction (under SpecInstr).                *)
(***************************************************************************)

\* C11: clone_new_index(i, k) returns an instruction whose index is k and
\* whose operation, comment and address are those of i; the call leaves i as
\* it was, and so does a later set_comment or set_address on the copy.
C11_CloneNewIndex ==
    /\ []( copy.tag = "Call" =>
             /\ copy.val.index = copy.arg
             /\ copy.val.operation = instr.operation
             /\ copy.fresh => /\ copy.val.comment = instr.comment
                              /\ copy.val.address = instr.address )
    /\ [][ (copy'.tag = "Call" /\ copy' # copy) => instr' = instr ]_vars

C11_Witness ==
    /\ copy.tag = "Call" /\ ~copy.fresh
    /\ copy.arg # instr.index
    /\ copy.val.index = copy.arg
    /\ instr.comment # None /\ instr.address # None
    /\ copy.val.comment # instr.comment
    /\ copy.val.address # instr.address

\* The hexadecimal digits, in capitals and in small letters.
CapitalDigits ==
    << "0", "1", "2", "3", "4", "5", "6", "7",
       "8", "9", "A", "B", "C", "D", "E", "F" >>

SmallDigits ==
    << "0", "1", "2", "3", "4", "5", "6", "7",
       "8", "9", "a", "b", "c", "d", "e", "f" >>

DigitsOf(text, alphabet) ==
    \A i \in DOMAIN text : \E d \in DOMAIN alphabet : alphabet[d] = text[i]

RECURSIVE HexValue(_, _)
\* The number a text of digits of the alphabet denotes.
HexValue(text, alphabet) ==
    IF text = << >> THEN 0
    ELSE 16 * HexValue(SubSeq(text, 1, Len(text) - 1), alphabet)
         + (CHOOSE d \in DOMAIN alphabet : alphabet[d] = text[Len(text)]) - 1

\* text is n in hexadecimal, in the digits of the alphabet, with no prefix,
\* whole, and filled with zeros on the left to the width and no further.
IsHex(text, n, alphabet, width) ==
    /\ Len(text) >= width
    /\ DigitsOf(text, alphabet)
    /\ HexValue(text, alphabet) = n
    /\ Len(text) > width => text[1] # "0"

\* The first field of a text whose fields are separated by spaces, and what
\* follows it.
FirstSpace(text) ==
    CHOOSE p \in DOMAIN text :
        text[p] = " " /\ \A q \in 1..(p - 1) : text[q] # " "

FirstField(text) == SubSeq(text, 1, FirstSpace(text) - 1)

AfterFirstField(text) == SubSeq(text, FirstSpace(text) + 1, Len(text))

RenderedAddress == FirstField(out.val)

RenderedIndex ==
    IF instr.address = None THEN FirstField(out.val)
    ELSE FirstField(AfterFirstField(out.val))

\* C12 as claimed: in the rendering the index is in hexadecimal with
\* lowercase digits, zero-padded to at least two digits and never truncated
\* (0x1ab renders as "1ab"), and the address, when present, is in hexadecimal
\* with no prefix and no padding.
C12_LowercaseHex ==
    out.tag = "Call" =>
        /\ IsHex(RenderedIndex, instr.index, SmallDigits, 2)
        /\ instr.index = 427 => RenderedIndex = << "1", "a", "b" >>
        /\ instr.address # None =>
               IsHex(RenderedAddress, instr.address.value, SmallDigits, 1)

\* C12 as amended: in the rendering the index is in hexadecimal with
\* uppercase digits, zero-padded to at least two digits and never truncated
\* (0x1ab renders as "1AB"), and the address, when present, is in hexadecimal
\* with uppercase digits, no prefix and no padding.
C12_UppercaseHex ==
    out.tag = "Call" =>
        /\ IsHex(RenderedIndex, instr.index, CapitalDigits, 2)
        /\ instr.index = 427 => RenderedIndex = << "1", "A", "B" >>
        /\ instr.address # None =>
               IsHex(RenderedAddress, instr.address.value, CapitalDigits, 1)

C12_Witness ==
    /\ out.tag = "Call"
    /\ instr.index = 427 /\ instr.address = Some(171)
    /\ RenderedIndex = << "1", "A", "B" >>
    /\ RenderedAddress = << "A", "B" >>

\* C13: exactly one of is_assign, is_store, is_load, is_brc, is_raise is
\* true of an instruction, the one named like the constructor that built it;
\* and the constructor gives it the index it was given, no comment and no
\* address.
C13_OnePredicate ==
    LET answers == [ assign |-> is_assign(instr), store |-> is_store(instr),
                     load |-> is_load(instr), brc |-> is_brc(instr),
                     raise |-> is_raise(instr) ]
    IN  /\ Cardinality({ p \in DOMAIN answers : answers[p] }) = 1
        /\ \A p \in DOMAIN answers : answers[p] <=> (made.ctor = p)
        /\ (made.comment = NoCall /\ made.address = NoCall) =>
               /\ instr.index = made.index
               /\ instr.comment = None
               /\ instr.address = None

C13_Witness ==
    /\ made = Made("load", 427)
    /\ is_load(instr)
    /\ ~is_assign(instr) /\ ~is_store(instr) /\ ~is_brc(instr) /\ ~is_raise(instr)
    /\ instr.index = 427 /\ instr.comment = None /\ instr.address = None

\* The variant each constructor builds.
VariantOf(ctor) ==
    CASE ctor = "assign" -> "Assign"
      [] ctor = "store"  -> "Store"
      [] ctor = "load"   -> "Load"
      [] ctor = "brc"    -> "Brc"
      [] ctor = "raise"  -> "Raise"

\* C14: after any sequence of set_comment and set_address calls the index and
\* the variant of the operation are those the instruction was created with,
\* comment() is what the last set_comment was given (none if there was no such
\* call) and address() is what the last set_address was given (none if there
\* was no such call); set_comment leaves the address and set_address leaves
\* the comment as they were.
C14_Setters ==
    /\ []( /\ instr.index = made.index
           /\ instr.operation.tag = VariantOf(made.ctor)
           /\ instr.comment =
                  IF made.comment = NoCall THEN None ELSE made.comment.val
           /\ instr.address =
                  IF made.address = NoCall THEN None ELSE made.address.val )
    /\ [][ /\ SetComment => /\ instr'.address = instr.address
                            /\ instr'.index = instr.index
                            /\ instr'.operation = instr.operation
           /\ SetAddress => /\ instr'.comment = instr.comment
                            /\ instr'.index = instr.index
                            /\ instr'.operation = instr.operation ]_vars

C14_Witness ==
    /\ made.ctor = "store" /\ made.index = 255
    /\ made.comment = [tag |-> "Call", val |-> Some(<< "e", "n", "t", "r", "y" >>)]
    /\ made.address = [tag |-> "Call", val |-> Some(171)]
    /\ is_store(instr) /\ instr.index = 255
    /\ instr.comment = Some(<< "e", "n", "t", "r", "y" >>)
    /\ instr.address = Some(171)

====
